---- MODULE Spec2Model ----
(***************************************************************************)
(* Pinball Territory War: the simulation engine (GameEngine, Ball, Unit).  *)
(*                                                                         *)
(* Numbers.  The engine computes in IEEE doubles; the model computes in    *)
(* fixed point.  Lengths on the map and in the pinball field, and          *)
(* velocities, are in hundredths (Sc = 100 to the unit); unit hp and core  *)
(* hp are in hundredths; angles are whole degrees; unit vectors (cos, sin, *)
(* collision normals) and the reward factors are in thousandths.  Every    *)
(* Math.random() draw is an input chosen from a small set.                 *)
(***************************************************************************)
EXTENDS Integers, Sequences, FiniteSets, TLC

VARIABLES players, balls, units, grid, terrainGrid, pegs, tick, winner,
          gamePhase, scores, territoryCounts, playerPegRefreshTimers,
          spawnAngles, lastScore, rng

vars == <<players, balls, units, grid, terrainGrid, pegs, tick, winner,
          gamePhase, scores, territoryCounts, playerPegRefreshTimers,
          spawnAngles, lastScore, rng>>

(***************************************************************************)
(* Bounds of the exploration.                                              *)
(***************************************************************************)
MaxPlayers == 2
MaxTick == 390
MaxSeed == 1

(***************************************************************************)
(* Program constants.                                                      *)
(***************************************************************************)
Sc == 100
MAP_GRID_SIZE == 100
GRAVITY == 15
FRICTION == 99
BOUNCE_DAMPING == 75
MinPlayers == 2
PinballWidth == 10000
PinballHeight == 15000
BallRadius == 600
PegRadius == 400
InitialTerritoryCount == 100
InitialCoreHp == 50000
BaseRadius == 8
TerritoryRadius == 18
RecountEvery == 10
ReaimEvery == 180
StuckLimit == 20
Null == -1
Neutral == -1
NoOwner == -2
NoPoint == <<>>

(***************************************************************************)
(* Arithmetic helpers.                                                     *)
(***************************************************************************)
Abs(a) == IF a < 0 THEN -a ELSE a
Min(a, b) == IF a < b THEN a ELSE b
Max(a, b) == IF a > b THEN a ELSE b
Sign(a) == IF a < 0 THEN -1 ELSE 1

\* Division of a product of fixed-point numbers, rounded to the nearest.
RoundDiv(a, b) == Sign(a) * ((Abs(a) + b \div 2) \div b)

\* Math.sqrt on a non-negative integer, rounded down.
RECURSIVE SqrtIter(_, _, _)
SqrtIter(n, lo, hi) ==
  IF lo >= hi THEN lo
  ELSE LET mid == (lo + hi + 1) \div 2
       IN IF mid * mid <= n THEN SqrtIter(n, mid, hi) ELSE SqrtIter(n, lo, mid - 1)
Sqrt(n) == IF n <= 0 THEN 0 ELSE SqrtIter(n, 0, Min(n, 46340))

\* cos of 0..90 degrees, in thousandths.
CosTab ==
  <<1000, 1000, 999, 999, 998, 996, 995, 993, 990, 988, 985, 982, 978, 974,
    970, 966, 961, 956, 951, 946, 940, 934, 927, 921, 914, 906, 899, 891,
    883, 875, 866, 857, 848, 839, 829, 819, 809, 799, 788, 777, 766, 755,
    743, 731, 719, 707, 695, 682, 669, 656, 643, 629, 616, 602, 588, 574,
    559, 545, 530, 515, 500, 485, 469, 454, 438, 423, 407, 391, 375, 358,
    342, 326, 309, 292, 276, 259, 242, 225, 208, 191, 174, 156, 139, 122,
    105, 87, 70, 52, 35, 17, 0>>

NormDeg(a) == a % 360

\* Math.cos and Math.sin of an angle in degrees, in thousandths.
Cos(a) ==
  LET d == NormDeg(a)
  IN IF d <= 90 THEN CosTab[d + 1]
     ELSE IF d <= 180 THEN -CosTab[180 - d + 1]
     ELSE IF d <= 270 THEN -CosTab[d - 180 + 1]
     ELSE CosTab[360 - d + 1]
Sin(a) == Cos(a + 270)

\* Math.acos in degrees (0..180) of a ratio in thousandths.
AcosDeg(r) ==
  IF r >= 1000 THEN 0
  ELSE IF r <= -1000 THEN 180
  ELSE CHOOSE a \in 1..180 : Cos(a) <= r /\ Cos(a - 1) > r

\* |Math.atan2(vy, vx)| in degrees (0..180).
AbsAtan2Deg(vy, vx) ==
  LET speed == Sqrt(vx * vx + vy * vy)
  IN IF speed = 0 THEN 0 ELSE AcosDeg((vx * 1000) \div speed)

\* |Math.asin(r)| in degrees (0..90) of a ratio in thousandths.
AbsAsinDeg(r) == 90 - AcosDeg(Min(1000, Abs(r)))

Cells == 0..(MAP_GRID_SIZE - 1)
InGrid(gx, gy) == gx >= 0 /\ gx < MAP_GRID_SIZE /\ gy >= 0 /\ gy < MAP_GRID_SIZE

(***************************************************************************)
(* Unit types and their statistics (UNIT_STATS).  speed is in hundredths   *)
(* of a cell per tick, baseHp in hundredths, captureRadius, attackPower    *)
(* and defenseBonus in tenths.                                             *)
(***************************************************************************)
UnitTypes == {"light", "heavy"}
UNIT_STATS ==
  [light |-> [baseHp |-> 4500, speed |-> 50, captureRadius |-> 12,
              attackPower |-> 10, defenseBonus |-> 9, bonusAgainst |-> {}],
   heavy |-> [baseHp |-> 9000, speed |-> 45, captureRadius |-> 25,
              attackPower |-> 20, defenseBonus |-> 22, bonusAgainst |-> {}]]

\* maxDistance set by the Unit constructor, in hundredths of a cell.
MaxDistanceOf(unitType) == IF unitType = "light" THEN 350 ELSE 500

\* phaseMultiplier of the Unit constructor, in tenths.
PhaseMultiplier(phase) ==
  IF phase = "late" THEN 14 ELSE IF phase = "mid" THEN 12 ELSE 10

(***************************************************************************)
(* The territory grid and the terrain grid: grid[gy][gx].                  *)
(***************************************************************************)
EmptyGrid == [y \in Cells |-> [x \in Cells |-> Neutral]]
EmptyTerrain == [y \in Cells |-> [x \in Cells |-> "normal"]]

\* A faulty cell set for paintArea, without the bounds test.
PaintDiscUnbounded(gridSize, cx, cy, radius) ==
  LET rCeil == (radius + 9) \div 10
  IN {c \in ((cx - rCeil)..(cx + rCeil)) \X ((cy - rCeil)..(cy + rCeil)) :
        ((c[1] - cx) * (c[1] - cx) + (c[2] - cy) * (c[2] - cy)) * 100 <= radius * radius}

\* The cells paintArea visits: in-bounds cells within radius (tenths) of (cx, cy).
PaintDisc(gridSize, cx, cy, radius) ==
  LET rCeil == (radius + 9) \div 10
  IN {c \in ((cx - rCeil)..(cx + rCeil)) \X ((cy - rCeil)..(cy + rCeil)) :
        /\ ((c[1] - cx) * (c[1] - cx) + (c[2] - cy) * (c[2] - cy)) * 100 <= radius * radius
        /\ c[1] >= 0 /\ c[1] < gridSize /\ c[2] >= 0 /\ c[2] < gridSize}

\* The grid g with the cells of disc set to value.  The comparison makes TLC
\* build the new grid once instead of keeping a chain of pending updates.
Painted(g, disc, rCeil, cy, value) ==
  LET painted == [y \in Cells |->
                    IF y < cy - rCeil \/ y > cy + rCeil THEN g[y]
                    ELSE [x \in Cells |-> IF <<x, y>> \in disc THEN value ELSE g[y][x]]]
  IN IF painted = painted THEN painted ELSE g

\* A faulty paintArea that writes the id after the painter's into the cells.
paintAreaNextId(g, gridSize, cx, cy, pid, radius) ==
  LET rCeil == (radius + 9) \div 10
      disc == PaintDisc(gridSize, cx, cy, radius)
  IN [grid |-> Painted(g, disc, rCeil, cy, pid + 1),
      paintedCount |-> Cardinality({c \in disc : g[c[2]][c[1]] # pid})]

\* The in-bounds cells of the square the loops of paintArea run over.
PaintSquare(gridSize, cx, cy, radius) ==
  LET rCeil == (radius + 9) \div 10
  IN {c \in ((cx - rCeil)..(cx + rCeil)) \X ((cy - rCeil)..(cy + rCeil)) :
        c[1] >= 0 /\ c[1] < gridSize /\ c[2] >= 0 /\ c[2] < gridSize}

\* A faulty paintArea without the circle test: it paints the whole square.
paintAreaSquare(g, gridSize, cx, cy, pid, radius) ==
  LET rCeil == (radius + 9) \div 10
      disc == PaintSquare(gridSize, cx, cy, radius)
  IN [grid |-> Painted(g, disc, rCeil, cy, pid),
      paintedCount |-> Cardinality({c \in disc : g[c[2]][c[1]] # pid})]

\* A faulty paintArea that counts every cell of the disc, owned or not.
paintAreaCountsAll(g, gridSize, cx, cy, pid, radius) ==
  LET rCeil == (radius + 9) \div 10
      disc == PaintDisc(gridSize, cx, cy, radius)
  IN [grid |-> Painted(g, disc, rCeil, cy, pid),
      paintedCount |-> Cardinality(disc)]

\* Unit.paintArea: the grid after the call and the returned paintedCount.
paintArea(g, gridSize, cx, cy, pid, radius) ==
  LET rCeil == (radius + 9) \div 10
      disc == PaintDisc(gridSize, cx, cy, radius)
  IN [grid |-> Painted(g, disc, rCeil, cy, pid),
      paintedCount |-> Cardinality({c \in disc : g[c[2]][c[1]] # pid})]

\* A faulty initializeTerritory that paints the base radius, not the territory radius.
initializeTerritoryBaseRadius(g, playerId, bx, by) ==
  LET centerGridX == bx \div Sc
      centerGridY == by \div Sc
      radius == BaseRadius
  IN [y \in Cells |->
        IF y < centerGridY - radius \/ y > centerGridY + radius THEN g[y]
        ELSE [x \in Cells |->
                IF (x - centerGridX) * (x - centerGridX)
                     + (y - centerGridY) * (y - centerGridY) <= radius * radius
                THEN playerId ELSE g[y][x]]]

\* GameEngine.initializeTerritory: a disc of radius 18 around the base cell.
initializeTerritory(g, playerId, bx, by) ==
  LET centerGridX == bx \div Sc
      centerGridY == by \div Sc
      radius == TerritoryRadius
  IN [y \in Cells |->
        IF y < centerGridY - radius \/ y > centerGridY + radius THEN g[y]
        ELSE [x \in Cells |->
                IF (x - centerGridX) * (x - centerGridX)
                     + (y - centerGridY) * (y - centerGridY) <= radius * radius
                THEN playerId ELSE g[y][x]]]

(***************************************************************************)
(* GameEngine.generateTerrain: 8 highground, 12 obstacle and 6 supply      *)
(* discs, later discs overwriting earlier ones.  A draw is the sequence of *)
(* the 26 <<cx, cy, radius>> the generator draws.                          *)
(***************************************************************************)
NumHighgrounds == 8
NumObstacles == 12
NumSupplyPoints == 6

TerrainTypeOf(k) ==
  IF k <= NumHighgrounds THEN "highground"
  ELSE IF k <= NumHighgrounds + NumObstacles THEN "obstacle"
  ELSE "supply"

generateTerrain(t, draw) ==
  [y \in Cells |-> [x \in Cells |->
     LET covering == {k \in 1..Len(draw) :
                        (x - draw[k][1]) * (x - draw[k][1])
                          + (y - draw[k][2]) * (y - draw[k][2])
                            <= draw[k][3] * draw[k][3]}
     IN IF covering = {} THEN t[y][x]
        ELSE TerrainTypeOf(CHOOSE k \in covering : \A j \in covering : j <= k)]]

TerrainDrawA ==
  << <<30, 30, 6>>, <<70, 70, 7>>, <<30, 70, 8>>, <<70, 30, 9>>,
     <<50, 50, 6>>, <<40, 60, 6>>, <<60, 40, 7>>, <<50, 25, 6>>,
     <<20, 20, 3>>, <<80, 80, 4>>, <<20, 80, 5>>, <<80, 20, 3>>,
     <<50, 75, 4>>, <<35, 50, 3>>, <<65, 52, 3>>, <<45, 15, 3>>,
     <<55, 84, 4>>, <<25, 45, 3>>, <<75, 55, 3>>, <<15, 60, 3>>,
     <<40, 50, 4>>, <<60, 60, 4>>, <<30, 40, 4>>, <<70, 45, 4>>,
     <<55, 30, 4>>, <<45, 70, 4>> >>

TerrainDraws == <<TerrainDrawA>>
TerrainOfDraw == [k \in 1..Len(TerrainDraws) |-> generateTerrain(EmptyTerrain, TerrainDraws[k])]

(***************************************************************************)
(* Pegs: GameEngine.generateMultiLayerPegs with the Gaussian offset drawn  *)
(* as 0, and getRandomPegType on a draw in hundredths.                     *)
(***************************************************************************)
ROW_COUNT == 5
COL_COUNT == 4
ROW_SPACING == 24
COL_SPACING == 24
START_Y == 120

getRandomPegType(rand) ==
  IF rand < 10 THEN "gold" ELSE IF rand < 18 THEN "red" ELSE "normal"

generateMultiLayerPegs(typeDraw) ==
  [k \in 1..(ROW_COUNT * COL_COUNT) |->
     LET r == (k - 1) \div COL_COUNT
         c == (k - 1) % COL_COUNT
         stagger == (r % 2) * (COL_SPACING \div 2)
         rowWidth == (COL_COUNT - 1) * COL_SPACING
         startX == (100 - rowWidth) \div 2
         x == startX + c * COL_SPACING + stagger
         y == START_Y - r * ROW_SPACING
     IN [x |-> Sc * Max(5, Min(95, x)), y |-> Sc * Max(5, Min(140, y)),
         type |-> getRandomPegType(typeDraw[k])]]

(***************************************************************************)
(* Ball.  x, y, vx, vy are in hundredths.  nan records that the position   *)
(* has become NaN (a division of 0 by 0 in the peg collision).             *)
(***************************************************************************)
\* Multiplication of a velocity by a factor in hundredths, truncated toward 0.
Scale100(v, f) == Sign(v) * ((Abs(v) * f) \div 100)

\* new Ball(x, y, color): rvx and rvy are the two Math.random() draws, in hundredths.
NewBall(x, y, rvx, rvy) ==
  [x |-> x, y |-> y,
   vx |-> RoundDiv((rvx - 50) * 150, 100),
   vy |-> RoundDiv(rvy * 30, 100),
   stuckFrames |-> 0, pegHitCount |-> 0, comboPoints |-> 0,
   maxComboPoints |-> 0, ballTick |-> 0, nan |-> FALSE]

\* A faulty anti-stuck check with the limit of the older engine (30).
AntiStuckOlder(vx, vy, stuckFrames, speedSq, d) ==
  IF speedSq < 2000
  THEN IF stuckFrames + 1 > 30
       THEN [vx |-> (d.stuckVx - 50) * 10, vy |-> -400 - d.stuckVy * 4, stuckFrames |-> 0]
       ELSE [vx |-> vx, vy |-> vy, stuckFrames |-> stuckFrames + 1]
  ELSE [vx |-> vx, vy |-> vy, stuckFrames |-> 0]

\* Anti-stuck (lines 77-89): velocity and stuck counter after the check.
\* d.stuckVy and d.stuckVx are the Math.random() draws, in hundredths.
AntiStuck(vx, vy, stuckFrames, speedSq, d) ==
  IF speedSq < 2000
  THEN IF stuckFrames + 1 > StuckLimit
       THEN [vx |-> (d.stuckVx - 50) * 10, vy |-> -400 - d.stuckVy * 4, stuckFrames |-> 0]
       ELSE [vx |-> vx, vy |-> vy, stuckFrames |-> stuckFrames + 1]
  ELSE [vx |-> vx, vy |-> vy, stuckFrames |-> 0]

\* Number of pegs closer than 10 to the ball (lines 91-100).
NearbyPegs(x, y, pegList) ==
  Cardinality({k \in 1..Len(pegList) :
     /\ Abs(x - pegList[k].x) < 1000 /\ Abs(y - pegList[k].y) < 1000
     /\ (x - pegList[k].x) * (x - pegList[k].x)
          + (y - pegList[k].y) * (y - pegList[k].y) < 1000 * 1000})

\* Forced escape when surrounded by pegs (lines 102-106).
ForceEscape(x, vx, vy, nearbyPegs, speedSq) ==
  IF nearbyPegs >= 3 /\ speedSq < 10000
  THEN [vx |-> IF x > 5000 THEN -300 ELSE 300, vy |-> -500]
  ELSE [vx |-> vx, vy |-> vy]

\* Walls (lines 108-131): x and vx after the wall check.
Walls(x, vx, vy, width) ==
  IF x < BallRadius
  THEN LET incidentAngle == AbsAtan2Deg(vy, vx)
           angleFactor == 500 + (incidentAngle * 300) \div 90
       IN [x |-> BallRadius, vx |-> -RoundDiv(vx * angleFactor, 1000)]
  ELSE IF x > width - BallRadius
  THEN LET incidentAngle == AbsAtan2Deg(vy, -vx)
           angleFactor == 500 + (incidentAngle * 300) \div 90
       IN [x |-> width - BallRadius, vx |-> -RoundDiv(vx * angleFactor, 1000)]
  ELSE [x |-> x, vx |-> vx]

\* Squared distance to a peg, capped so that far pegs do not overflow.
PegDistSq(x, y, peg) ==
  LET dx == Min(20000, Abs(x - peg.x))
      dy == Min(20000, Abs(y - peg.y))
  IN dx * dx + dy * dy

\* Index of the closest peg (lines 138-156), the first one on ties; 0 if none.
ClosestPeg(x, y, pegList) ==
  IF Len(pegList) = 0 THEN 0
  ELSE CHOOSE k \in 1..Len(pegList) :
         \A j \in 1..Len(pegList) :
            \/ PegDistSq(x, y, pegList[k]) < PegDistSq(x, y, pegList[j])
            \/ (PegDistSq(x, y, pegList[k]) = PegDistSq(x, y, pegList[j]) /\ k <= j)

\* Combo points after hitting a peg of the given type (lines 206-213).
ComboAfter(comboPoints, pegType) ==
  IF pegType = "normal" THEN comboPoints + 1
  ELSE IF pegType = "gold" THEN comboPoints + 3
  ELSE IF pegType = "red" THEN comboPoints - 2
  ELSE comboPoints

\* Lines 175-203: the velocity after the bounce off a peg with normal
\* (nx, ny), in thousandths; dot < 0 is the velocity along the normal.
\* d.rot is the Math.random() draw of the perturbation, in hundredths.
Perturb(cvx, cvy, randomAngle) ==
  [vx |-> RoundDiv(cvx * Cos(randomAngle) - cvy * Sin(randomAngle), 1000),
   vy |-> RoundDiv(cvx * Sin(randomAngle) + cvy * Cos(randomAngle), 1000)]

Combine(nx, ny, reflectedNormalVel, newTangentialVel, d) ==
  Perturb(RoundDiv(reflectedNormalVel * nx + newTangentialVel * (-ny), 1000),
          RoundDiv(reflectedNormalVel * ny + newTangentialVel * nx, 1000),
          RoundDiv((d.rot - 50) * 573, 10000))

Reflect(vx, vy, nx, ny, dot, d) ==
  LET speed == Max(1, Sqrt(vx * vx + vy * vy))
      incidentAngle == AbsAsinDeg(dot \div speed)
      tangentialVel == vx * (-ny) + vy * nx
      angleFactor == 1000 - (incidentAngle * 300) \div 180
      effectiveDamping == (BOUNCE_DAMPING * 10 * angleFactor) \div 1000
  IN Combine(nx, ny, RoundDiv((-dot) * effectiveDamping, 1000000),
             RoundDiv(tangentialVel * 95, 100000), d)

\* Lines 171-222 for a peg at distance dist > 0 with normal (nx, ny).
HitPeg(b, peg, nx, ny, dot, overlap, v, combo) ==
  IF dot < 0
  THEN [b EXCEPT !.vx = v.vx, !.vy = v.vy,
                 !.pegHitCount = @ + 1,
                 !.comboPoints = combo,
                 !.maxComboPoints = Max(@, combo),
                 !.x = @ + RoundDiv(nx * overlap, 1000),
                 !.y = @ + RoundDiv(ny * overlap, 1000)]
  ELSE [b EXCEPT !.x = @ + RoundDiv(nx * overlap, 1000),
                 !.y = @ + RoundDiv(ny * overlap, 1000)]

PushOut(b, peg, nx, ny, dist, d) ==
  HitPeg(b, peg, nx, ny, b.vx * nx + b.vy * ny, BallRadius + PegRadius - dist,
         Reflect(b.vx, b.vy, nx, ny, b.vx * nx + b.vy * ny, d),
         ComboAfter(b.comboPoints, peg.type))

\* dist = 0 gives nx = ny = 0/0 = NaN: dot < 0 is false and the position
\* becomes NaN.
Collide(b, peg, closestDx, closestDy, dist, d) ==
  IF dist = 0 THEN [b EXCEPT !.nan = TRUE]
  ELSE PushOut(b, peg, RoundDiv(closestDx * 1000, dist), RoundDiv(closestDy * 1000, dist),
               dist, d)

CollideWith(b, peg, d) ==
  Collide(b, peg, b.x - peg.x, b.y - peg.y,
          Sqrt((b.x - peg.x) * (b.x - peg.x) + (b.y - peg.y) * (b.y - peg.y)), d)

\* The peg collision (lines 133-223) on ball state b (after the walls); k is
\* the index of the closest peg.
CollideClosest(b, pegList, k, d) ==
  IF k = 0 THEN b
  ELSE IF PegDistSq(b.x, b.y, pegList[k])
            >= (BallRadius + PegRadius) * (BallRadius + PegRadius) THEN b
  ELSE CollideWith(b, pegList[k], d)

PegCollision(b, pegList, d) ==
  CollideClosest(b, pegList, ClosestPeg(b.x, b.y, pegList), d)

\* baseScore from randomSeed (lines 234-250); d.seed is Math.random() * 100.
BaseScore(b, d) ==
  LET randomSeed == (b.x + (b.y \div Sc) + b.ballTick + d.seed) % 100
  IN IF randomSeed < 15 THEN 0
     ELSE IF randomSeed < 40 THEN 1
     ELSE IF randomSeed < 70 THEN 2
     ELSE IF randomSeed < 90 THEN 4
     ELSE 8

\* comboFactor (line 231), in thousandths.
ComboFactor(comboPoints) == Min(2000, 1000 + comboPoints * 50)

\* The exit score (lines 227-257): Math.max(0, finalScore).
ExitScore(b, speedSq, d) ==
  LET speedFactor == Min(1000, Sqrt(speedSq))
      xPositionFactor == Abs(b.x - 5000) \div 5
      comboFactor == ComboFactor(b.comboPoints)
      baseScore == BaseScore(b, d)
      finalScore == (((baseScore * speedFactor * comboFactor) \div 10)
                      * (1000 - xPositionFactor \div 2)) \div 100000000
  IN Max(0, finalScore)

\* A faulty exit test that takes the ball's lower edge touching the floor line
\* for a crossing.
BelowFloorEarly(b, height) == ~b.nan /\ b.y > height - BallRadius

\* Whether the ball is below the floor (line 227).
BelowFloor(b, height) == ~b.nan /\ b.y > height + BallRadius

\* The ball after the peg collision and the value Ball.update returns (lines
\* 225-259).
Exit(b2, height, speedSq, d) ==
  [ball |-> b2,
   ret |-> IF BelowFloor(b2, height) THEN ExitScore(b2, speedSq, d) ELSE 0]

\* The ball after the walls (lines 108-131), then the pegs and the exit.
AfterWalls(b, y1, w, vy, stuckFrames, height, pegList, speedSq, d) ==
  Exit(PegCollision([b EXCEPT !.ballTick = @ + 1, !.x = w.x, !.y = y1,
                              !.vx = w.vx, !.vy = vy,
                              !.stuckFrames = stuckFrames], pegList, d),
       height, speedSq, d)

AfterEscape(b, x1, y1, esc, stuckFrames, width, height, pegList, speedSq, d) ==
  AfterWalls(b, y1, Walls(x1, esc.vx, esc.vy, width), esc.vy, stuckFrames,
             height, pegList, speedSq, d)

\* The ball after the anti-stuck check st (lines 77-89).
AfterStuck(b, x1, y1, st, width, height, pegList, speedSq, d) ==
  IF b.nan
  THEN [ball |-> [b EXCEPT !.ballTick = @ + 1, !.vx = st.vx, !.vy = st.vy,
                           !.stuckFrames = st.stuckFrames],
        ret |-> 0]
  ELSE AfterEscape(b, x1, y1,
                   ForceEscape(x1, st.vx, st.vy, NearbyPegs(x1, y1, pegList), speedSq),
                   st.stuckFrames, width, height, pegList, speedSq, d)

\* The ball moved with velocity (vx2, vy2) (lines 70-75).
Moved(b, vx2, vy2, width, height, pegList, d) ==
  AfterStuck(b, b.x + vx2, b.y + vy2,
             AntiStuck(vx2, vy2, b.stuckFrames, vx2 * vx2 + vy2 * vy2, d),
             width, height, pegList, vx2 * vx2 + vy2 * vy2, d)

\* Ball.update(width, height, pegs): the ball after the call and the value returned.
BallUpdate(b, width, height, pegList, d) ==
  Moved(b, Scale100(b.vx, FRICTION), Scale100(b.vy + GRAVITY, FRICTION),
        width, height, pegList, d)

(***************************************************************************)
(* Unit.  x, y, spawnPosition and leftTerritoryPosition are in hundredths  *)
(* of a cell, angle in degrees, hp and maxHp in hundredths, attackPower in *)
(* hundredths.  currentOwner keeps the owner of the cell the unit stood on *)
(* in its last update (the local currentOwner), NoOwner before any update *)
(* or when the unit left the grid.                                         *)
(***************************************************************************)
\* new Unit(x, y, playerId, color, angle, unitType, hpMultiplier, gamePhase);
\* hpMultiplier is in hundred-thousandths.
NewUnit(x, y, playerId, angle, unitType, hpMultiplier, phase) ==
  LET stats == UNIT_STATS[unitType]
      phaseMultiplier == PhaseMultiplier(phase)
      baseHp == RoundDiv(RoundDiv(stats.baseHp * phaseMultiplier, 10) * hpMultiplier, 100000)
  IN [x |-> x, y |-> y, playerId |-> playerId, angle |-> NormDeg(angle),
      unitType |-> unitType, active |-> TRUE,
      hp |-> baseHp, maxHp |-> baseHp,
      attackPower |-> stats.attackPower * phaseMultiplier,
      bounceCooldown |-> 0,
      maxDistance |-> MaxDistanceOf(unitType),
      spawnPosition |-> <<x, y>>,
      leftTerritoryPosition |-> NoPoint,
      currentOwner |-> NoOwner]

\* Squared distance between two points, in hundredths squared.
DistSq(x1, y1, x2, y2) == (x1 - x2) * (x1 - x2) + (y1 - y2) * (y1 - y2)

\* A step of length len (hundredths) along the angle: the x and y increments.
StepX(angle, len) == RoundDiv(Cos(angle) * len, 1000)
StepY(angle, len) == RoundDiv(Sin(angle) * len, 1000)

\* A faulty anchor rule that clears the anchor on every cell of the unit's owner.
ExcursionResetOnOwn(u, x, y, currentOwner) ==
  IF currentOwner = u.playerId
  THEN [anchor |-> NoPoint, exceeded |-> FALSE]
  ELSE IF u.leftTerritoryPosition = NoPoint
       THEN [anchor |-> <<x, y>>, exceeded |-> FALSE]
       ELSE [anchor |-> u.leftTerritoryPosition,
             exceeded |-> DistSq(x, y, u.leftTerritoryPosition[1], u.leftTerritoryPosition[2])
                            > u.maxDistance * u.maxDistance]

\* Lines 357-390: the exit anchor and the excursion check.  The result is the
\* new anchor and whether the unit has exceeded its excursion budget.
Excursion(u, x, y, currentOwner) ==
  IF currentOwner = u.playerId
  THEN [anchor |-> IF DistSq(x, y, u.spawnPosition[1], u.spawnPosition[2]) < 200 * 200
                   THEN NoPoint ELSE u.leftTerritoryPosition,
        exceeded |-> FALSE]
  ELSE IF u.leftTerritoryPosition = NoPoint
       THEN [anchor |-> <<x, y>>, exceeded |-> FALSE]
       ELSE [anchor |-> u.leftTerritoryPosition,
             exceeded |-> DistSq(x, y, u.leftTerritoryPosition[1], u.leftTerritoryPosition[2])
                            > u.maxDistance * u.maxDistance]

\* Lines 394-430: the bounce of heavy units off the four boundaries.
Bounce(u, x, y, gridSize) ==
  IF u.unitType = "heavy" /\ u.bounceCooldown <= 0
  THEN LET margin == 50
           hitX == x <= margin \/ x >= gridSize * Sc - margin
           hitY == y <= margin \/ y >= gridSize * Sc - margin
           x1 == IF x <= margin THEN margin
                 ELSE IF x >= gridSize * Sc - margin THEN gridSize * Sc - margin ELSE x
           y1 == IF y <= margin THEN margin
                 ELSE IF y >= gridSize * Sc - margin THEN gridSize * Sc - margin ELSE y
           a1 == IF hitX THEN NormDeg(180 - u.angle) ELSE u.angle
           a2 == IF hitY THEN NormDeg(-a1) ELSE a1
           bounced == hitX \/ hitY
           cd == IF bounced THEN 15 ELSE u.bounceCooldown
       IN [x |-> x1, y |-> y1, angle |-> a2,
           hp |-> IF bounced THEN Min(u.maxHp, u.hp + 3000) ELSE u.hp,
           bounceCooldown |-> IF cd > 0 THEN cd - 1 ELSE cd]
  ELSE [x |-> x, y |-> y, angle |-> u.angle, hp |-> u.hp,
        bounceCooldown |-> IF u.bounceCooldown > 0 THEN u.bounceCooldown - 1
                           ELSE u.bounceCooldown]

\* Lines 432-445: terrain modifiers; speedModifier in hundredths, defenseModifier in tenths.
SpeedModifier(terrain) ==
  IF terrain = "highground" THEN 95 ELSE IF terrain = "obstacle" THEN 80 ELSE 100
DefenseModifier(terrain) == IF terrain = "highground" THEN 11 ELSE 10
SupplyHeal(terrain, hp, maxHp) ==
  IF terrain = "supply" /\ hp < maxHp THEN Min(maxHp, hp + 150) ELSE hp

\* Lines 468-489: the unit type counter system, in tenths.
TypeBonus(u, x, y, currentOwner, allUnits) ==
  LET nearbyEnemies == {k \in 1..Len(allUnits) :
          /\ allUnits[k].active
          /\ allUnits[k].playerId # u.playerId
          /\ allUnits[k].playerId = currentOwner
          /\ Abs(allUnits[k].x - x) < 300
          /\ Abs(allUnits[k].y - y) < 300}
      deciding == {k \in nearbyEnemies :
          \/ allUnits[k].unitType \in UNIT_STATS[u.unitType].bonusAgainst
          \/ u.unitType \in UNIT_STATS[allUnits[k].unitType].bonusAgainst}
  IN IF deciding = {} THEN 10
     ELSE LET k == CHOOSE i \in deciding : \A j \in deciding : i <= j
          IN IF allUnits[k].unitType \in UNIT_STATS[u.unitType].bonusAgainst
             THEN 15 ELSE 7

\* Lines 497-510: whether (gx, gy) lies in the base area of the living owner.
IsBaseArea(ps, currentOwner, gx, gy) ==
  \E i \in DOMAIN ps :
     /\ currentOwner = ps[i].id /\ ps[i].isAlive
     /\ DistSq(gx, gy, ps[i].bx \div Sc, ps[i].by \div Sc) <= ps[i].baseRadius * ps[i].baseRadius

\* Lines 491-526: finalCost of painting pixelsPainted cells, in hundredths of hp.
CaptureCost(u, pixelsPainted, currentOwner, isEnemyTerritory, isBaseArea, terrain, typeBonus) ==
  LET resistanceMult == IF isEnemyTerritory THEN 35 ELSE 10
      neutralMult == IF currentOwner = Neutral THEN 15 ELSE 10
      baseMult == IF isBaseArea THEN 3 ELSE 1
      terrainMult == IF terrain = "highground" THEN 13 ELSE 10
      heavyMult == IF u.unitType = "heavy" THEN 8 ELSE 10
      num == pixelsPainted * resistanceMult * neutralMult * baseMult
               * terrainMult * heavyMult
  IN (num * 10 * 10) \div (u.attackPower * typeBonus * DefenseModifier(terrain))

\* A faulty end of Unit.update that never deactivates the unit.
StillActiveAlways(hp) == TRUE

\* Lines 531-533: the unit stays active while its hp is positive.
StillActive(hp) == hp > 0

\* Unit.update(grid, terrainGrid, gridSize, players, allUnits): the unit and
\* the grid after the call, and the value returned.
UnitUpdate(u, g, tg, gridSize, ps, allUnits) ==
  IF ~u.active THEN [unit |-> u, grid |-> g, ret |-> FALSE]
  ELSE
    LET stats == UNIT_STATS[u.unitType]
        x1 == u.x + StepX(u.angle, stats.speed)
        y1 == u.y + StepY(u.angle, stats.speed)
        gx == x1 \div Sc
        gy == y1 \div Sc
    IN IF gx < 0 \/ gx >= gridSize \/ gy < 0 \/ gy >= gridSize
       THEN [unit |-> [u EXCEPT !.x = x1, !.y = y1, !.active = FALSE,
                                !.currentOwner = NoOwner],
             grid |-> g, ret |-> FALSE]
       ELSE
         LET currentOwner == g[gy][gx]
             ex == Excursion(u, x1, y1, currentOwner)
         IN IF ex.exceeded
            THEN [unit |-> [u EXCEPT !.x = x1, !.y = y1, !.active = FALSE,
                                     !.currentOwner = currentOwner],
                  grid |-> g, ret |-> FALSE]
            ELSE
              LET terrain == tg[gy][gx]
                  bo == Bounce(u, x1, y1, gridSize)
                  hp1 == SupplyHeal(terrain, bo.hp, u.maxHp)
                  slow == (stats.speed * (SpeedModifier(terrain) - 100)) \div 100
                  x2 == bo.x + StepX(bo.angle, slow)
                  y2 == bo.y + StepY(bo.angle, slow)
                  u1 == [u EXCEPT !.angle = bo.angle, !.bounceCooldown = bo.bounceCooldown,
                                  !.leftTerritoryPosition = ex.anchor,
                                  !.currentOwner = currentOwner]
              IN IF currentOwner = u.playerId
                 THEN [unit |-> [u1 EXCEPT !.x = x2 + StepX(bo.angle, 1),
                                           !.y = y2 + StepY(bo.angle, 1),
                                           !.hp = hp1],
                       grid |-> g, ret |-> FALSE]
                 ELSE
                   LET isEnemyTerritory ==
                         /\ currentOwner # Neutral
                         /\ currentOwner \in DOMAIN ps
                         /\ ps[currentOwner].isAlive
                       typeBonus == TypeBonus(u, x2, y2, currentOwner, allUnits)
                       pa == paintArea(g, gridSize, gx, gy, u.playerId, stats.captureRadius)
                       finalCost == CaptureCost(u, pa.paintedCount, currentOwner,
                                                isEnemyTerritory,
                                                IsBaseArea(ps, currentOwner, gx, gy),
                                                terrain, typeBonus)
                       hp2 == IF pa.paintedCount > 0 THEN hp1 - finalCost ELSE hp1
                   IN [unit |-> [u1 EXCEPT !.x = x2, !.y = y2, !.hp = hp2,
                                           !.active = StillActive(hp2)],
                       grid |-> pa.grid, ret |-> isEnemyTerritory]

(***************************************************************************)
(* GameEngine.  players, scores, territoryCounts, playerPegRefreshTimers   *)
(* and spawnAngles are functions on the player ids 0..n-1; balls is the    *)
(* Map from player id to Ball.  A player's basePosition is kept multiplied *)
(* by MAP_GRID_SIZE, in hundredths of a cell (bx, by), as the IEEE doubles *)
(* of setup() give it.                                                     *)
(***************************************************************************)
BasePositions ==
  << << <<9000, 5000>>, <<999, 5000>> >>,
     << <<9000, 5000>>, <<3000, 8464>>, <<2999, 1535>> >>,
     << <<9000, 5000>>, <<5000, 9000>>, <<999, 5000>>, <<4999, 999>> >>,
     << <<9000, 5000>>, <<6236, 8804>>, <<1763, 7351>>, <<1763, 2648>>, <<6236, 1195>> >>,
     << <<9000, 5000>>, <<7000, 8464>>, <<3000, 8464>>, <<999, 5000>>, <<2999, 1535>>,
        <<7000, 1535>> >>,
     << <<9000, 5000>>, <<7493, 8127>>, <<4109, 8899>>, <<1396, 6735>>, <<1396, 3264>>,
        <<4109, 1100>>, <<7493, 1872>> >>,
     << <<9000, 5000>>, <<7828, 7828>>, <<5000, 9000>>, <<2171, 7828>>, <<999, 5000>>,
        <<2171, 2171>>, <<4999, 999>>, <<7828, 2171>> >>,
     << <<9000, 5000>>, <<8064, 7571>>, <<5694, 8939>>, <<3000, 8464>>, <<1241, 6368>>,
        <<1241, 3631>>, <<2999, 1535>>, <<5694, 1060>>, <<8064, 2428>> >> >>

\* basePos of player i of playerCount (setup, lines 776-781), times MAP_GRID_SIZE.
BasePos(playerCount, i) == BasePositions[playerCount - 1][i + 1]

PlayerIds(ps) == DOMAIN ps
AlivePlayers(ps) == {i \in DOMAIN ps : ps[i].isAlive}

\* Math.atan2(50 - by, 50 - bx) in degrees (0..359).
CenterAngle(bx, by) ==
  LET a == AbsAtan2Deg(5000 - by, 5000 - bx)
  IN IF 5000 - by >= 0 THEN a ELSE NormDeg(360 - a)

\* GameEngine.spawnBall: d.ballX, d.ballVx, d.ballVy are the draws, in hundredths.
spawnBall(bs, ps, playerId, d) ==
  IF ~ps[playerId].isAlive THEN bs
  ELSE LET startX == 3000 + d.ballX * 40
           ball == NewBall(startX, -1000, d.ballVx, d.ballVy)
       IN [i \in (DOMAIN bs) \cup {playerId} |-> IF i = playerId THEN ball ELSE bs[i]]

\* A faulty elimination that leaves the ball of the eliminated player in the Map.
DeleteBallNever(bs, eliminated) == bs

\* A faulty elimination that clears the whole Map when a player is eliminated.
DeleteBallAll(bs, eliminated) == IF eliminated = {} THEN bs ELSE <<>>

\* balls.delete(p.id) for the players eliminated in this call (line 1105).
DeleteBall(bs, eliminated) == [i \in (DOMAIN bs) \ eliminated |-> bs[i]]

\* A faulty getUnitMix whose jackpot weights do not sum to 1.
getUnitMixShort(isJackpot) ==
  IF isJackpot THEN [light |-> 30, heavy |-> 60] ELSE [light |-> 50, heavy |-> 50]

\* GameEngine.getUnitMix, in hundredths.
getUnitMix(isJackpot) ==
  IF isJackpot THEN [light |-> 30, heavy |-> 70] ELSE [light |-> 50, heavy |-> 50]

\* GameEngine.selectUnitType on a draw in hundredths.
selectUnitType(mix, rand) ==
  IF rand < mix.light THEN "light"
  ELSE IF rand < mix.light + mix.heavy THEN "heavy"
  ELSE "assault"

\* The dominance used by spawnWave (lines 919-921), as a clamped cell count.
WaveOwned(count) ==
  LET ownedPixels == IF count = 0 THEN InitialTerritoryCount ELSE count
  IN Min(MAP_GRID_SIZE * MAP_GRID_SIZE, Max(100, ownedPixels))

QuantityBonus(owned) == (owned * 5) \div (MAP_GRID_SIZE * MAP_GRID_SIZE)
CatchUpBonus(owned) ==
  IF owned < 2000 THEN ((2000 - owned) * 5) \div (MAP_GRID_SIZE * MAP_GRID_SIZE) ELSE 0
TerritoryPenalty(owned) ==
  IF owned < 500 THEN 7 ELSE IF owned < 1000 THEN 8 ELSE IF owned < 1500 THEN 9 ELSE 10

\* A faulty wave size without the minimum of one unit (line 962).
WaveSizeNoMinimum(count, amountBase) ==
  LET owned == WaveOwned(count)
      territoryPenalty == TerritoryPenalty(owned)
      finalAmount == ((amountBase + QuantityBonus(owned)) * territoryPenalty) \div 10
      catchUpBonus == (CatchUpBonus(owned) * territoryPenalty) \div 10
  IN finalAmount + catchUpBonus

\* Number of units spawnWave creates (lines 923-962).
WaveSize(count, amountBase) ==
  LET owned == WaveOwned(count)
      territoryPenalty == TerritoryPenalty(owned)
      finalAmount == ((amountBase + QuantityBonus(owned)) * territoryPenalty) \div 10
      catchUpBonus == (CatchUpBonus(owned) * territoryPenalty) \div 10
  IN Max(1, finalAmount) + catchUpBonus

\* angleOffset of a spawned unit (lines 977-989), in degrees.
AngleOffset(rand, r2) ==
  IF rand < 60 THEN RoundDiv((r2 - 50) * 90, 100)
  ELSE IF rand < 90 THEN RoundDiv((r2 - 50) * 180, 100)
  ELSE RoundDiv((r2 - 50) * 270, 100)

\* The i-th unit of a wave (lines 963-1005); w is its record of draws.
WaveUnit(p, count, phase, isJackpot, w) ==
  LET productionRadius == (p.baseRadius * 2 * Sc) \div 3
      randomDist == (w.dist * productionRadius) \div 100
      offsetX == StepX(w.angle, randomDist)
      offsetY == StepY(w.angle, randomDist)
      unitAngle == CenterAngle(p.bx, p.by) + AngleOffset(w.spread, w.offset)
      unitType == selectUnitType(getUnitMix(isJackpot), w.type)
      hpMultiplier == 100000 + WaveOwned(count) * 4
  IN NewUnit(p.bx + offsetX, p.by + offsetY, p.id, unitAngle, unitType,
             hpMultiplier, phase)

\* GameEngine.spawnWave: the unit list after the call.  wave[i] gives the
\* draws of the i-th unit.
spawnWave(us, ps, counts, phase, playerId, amountBase, isJackpot, wave) ==
  IF ~ps[playerId].isAlive THEN us
  ELSE us \o [i \in 1..WaveSize(counts[playerId], amountBase) |->
                 WaveUnit(ps[playerId], counts[playerId], phase, isJackpot, wave[i])]

(***************************************************************************)
(* GameEngine.checkSurvival.                                               *)
(***************************************************************************)
\* productionRadius (line 1073).
ProductionRadius(p) == (p.baseRadius * 2) \div 3

\* weight of a cell at squared distance d2 from the base cell (line 1083), in thousandths.
Weight(productionRadius, d2) ==
  Max(1000, (productionRadius * 1000 - Sqrt(d2 * 1000000)) * 2)

\* Offsets of the production disc at squared distance d2.
Ring(productionRadius, d2) ==
  {o \in ((-productionRadius)..productionRadius) \X ((-productionRadius)..productionRadius) :
     o[1] * o[1] + o[2] * o[2] = d2}

\* The sums of lines 1077-1096 over the cells at squared distance lo..hi from
\* the base cell, the range halved at each step.
RECURSIVE TotalWeightFrom(_, _, _)
TotalWeightFrom(productionRadius, lo, hi) ==
  IF lo = hi
  THEN Weight(productionRadius, lo) * Cardinality(Ring(productionRadius, lo))
  ELSE TotalWeightFrom(productionRadius, lo, (lo + hi) \div 2)
         + TotalWeightFrom(productionRadius, (lo + hi) \div 2 + 1, hi)

\* The cells at squared distance d2 from the base cell that player p holds.
Held(g, p, productionRadius, d2) ==
  {o \in Ring(productionRadius, d2) :
     /\ InGrid(p.bx \div Sc + o[1], p.by \div Sc + o[2])
     /\ g[p.by \div Sc + o[2]][p.bx \div Sc + o[1]] = p.id}

RECURSIVE WeightedControlFrom(_, _, _, _, _)
WeightedControlFrom(g, p, productionRadius, lo, hi) ==
  IF lo = hi
  THEN Weight(productionRadius, lo) * Cardinality(Held(g, p, productionRadius, lo))
  ELSE WeightedControlFrom(g, p, productionRadius, lo, (lo + hi) \div 2)
         + WeightedControlFrom(g, p, productionRadius, (lo + hi) \div 2 + 1, hi)

\* totalWeight and weightedControl of a player (lines 1068-1096).
TotalWeight(p) ==
  TotalWeightFrom(ProductionRadius(p), 0, ProductionRadius(p) * ProductionRadius(p))
WeightedControl(g, p) ==
  WeightedControlFrom(g, p, ProductionRadius(p), 0,
                      ProductionRadius(p) * ProductionRadius(p))

\* A faulty core hp that scales the ratio by 600 instead of 500.
CoreHpOfScaled600(weightedControl, totalWeight) ==
  IF totalWeight > 0
  THEN ((weightedControl * 600) \div totalWeight) * 100
         + (((weightedControl * 600) % totalWeight) * 100) \div totalWeight
  ELSE 0

\* weightedControlRatio * 500 (line 1100), in hundredths.
CoreHpOf(weightedControl, totalWeight) ==
  IF totalWeight > 0
  THEN ((weightedControl * 500) \div totalWeight) * 100
         + (((weightedControl * 500) % totalWeight) * 100) \div totalWeight
  ELSE 0

\* A faulty elimination test with the floor at 0.01 instead of 0.1.
BelowFloorRatioHundredth(weightedControl, totalWeight) ==
  IF totalWeight > 0 THEN weightedControl * 100 < totalWeight ELSE TRUE

\* weightedControlRatio < 0.1 (line 1103).
BelowFloorRatio(weightedControl, totalWeight) ==
  IF totalWeight > 0 THEN weightedControl * 10 < totalWeight ELSE TRUE

\* The body of the forEach over players (lines 1040-1113) for one player.
SurvivalOf(g, p) ==
  IF ~p.isAlive THEN p
  ELSE LET wc == WeightedControl(g, p)
           tw == TotalWeight(p)
       IN [p EXCEPT !.coreHp = CoreHpOf(wc, tw),
                    !.isAlive = ~BelowFloorRatio(wc, tw)]

\* A faulty win test that omits the last-player-standing condition.
WinnerAfterFullGridOnly(ps, counts, w) ==
  LET alive == AlivePlayers(ps)
      full == {i \in alive : counts[i] >= MAP_GRID_SIZE * MAP_GRID_SIZE}
  IN IF full = {} THEN w ELSE CHOOSE i \in full : \A j \in full : i <= j

\* A faulty win test that assigns lastAliveId whenever at most one player is
\* alive, also when it is still -1.
WinnerAfterAtMostOne(ps, counts, w) ==
  LET alive == AlivePlayers(ps)
      w1 == IF alive = {} THEN Null
            ELSE IF Cardinality(alive) = 1 THEN CHOOSE i \in alive : TRUE ELSE w
      full == {i \in alive : counts[i] >= MAP_GRID_SIZE * MAP_GRID_SIZE}
  IN IF full = {} THEN w1 ELSE CHOOSE i \in full : \A j \in full : i <= j

\* The win conditions (lines 1115-1127).
WinnerAfter(ps, counts, w) ==
  LET alive == AlivePlayers(ps)
      w1 == IF Cardinality(alive) = 1 THEN CHOOSE i \in alive : TRUE ELSE w
      full == {i \in alive : counts[i] >= MAP_GRID_SIZE * MAP_GRID_SIZE}
  IN IF full = {} THEN w1 ELSE CHOOSE i \in full : \A j \in full : i <= j

\* The forEach over players (lines 1040-1113), player by player from i on.
RECURSIVE SurvivalFrom(_, _, _)
SurvivalFrom(i, ps, g) ==
  IF i \notin DOMAIN ps THEN ps
  ELSE SurvivalFrom(i + 1, [ps EXCEPT ![i] = SurvivalOf(g, ps[i])], g)

\* A faulty checkSurvival that removes the eliminated players from the list
\* instead of flagging them.
checkSurvivalRemoving(ps, bs, g, counts, w) ==
  LET ps1 == SurvivalFrom(0, ps, g)
      eliminated == {i \in DOMAIN ps : ps[i].isAlive /\ ~ps1[i].isAlive}
  IN [players |-> [i \in (DOMAIN ps) \ eliminated |-> ps1[i]],
      balls |-> DeleteBall(bs, eliminated),
      winner |-> WinnerAfter(ps1, counts, w)]

\* GameEngine.checkSurvival: players, balls and winner after the call.
checkSurvival(ps, bs, g, counts, w) ==
  LET ps1 == SurvivalFrom(0, ps, g)
      eliminated == {i \in DOMAIN ps : ps[i].isAlive /\ ~ps1[i].isAlive}
  IN [players |-> ps1,
      balls |-> DeleteBall(bs, eliminated),
      winner |-> WinnerAfter(ps1, counts, w)]

\* Math.max(...counts); -Infinity on the empty list is below every threshold.
MaxCount(counts) ==
  IF DOMAIN counts = {} THEN -1
  ELSE CHOOSE m \in {counts[i] : i \in DOMAIN counts} : \A i \in DOMAIN counts : counts[i] <= m

\* A faulty updateGamePhase with the thresholds of the older engine.
updateGamePhaseOlder(counts) ==
  LET maxTerritory == MaxCount(counts)
  IN IF maxTerritory * 100 < 25 * MAP_GRID_SIZE * MAP_GRID_SIZE THEN "early"
     ELSE IF maxTerritory * 100 < 50 * MAP_GRID_SIZE * MAP_GRID_SIZE THEN "mid"
     ELSE "late"

\* GameEngine.updateGamePhase.
updateGamePhase(counts) ==
  LET maxTerritory == MaxCount(counts)
  IN IF maxTerritory * 100 < 15 * MAP_GRID_SIZE * MAP_GRID_SIZE THEN "early"
     ELSE IF maxTerritory * 100 < 30 * MAP_GRID_SIZE * MAP_GRID_SIZE THEN "mid"
     ELSE "late"

(***************************************************************************)
(* Peg refresh (update, lines 1148-1170, and refreshSpecialPegsForPlayer). *)
(***************************************************************************)
\* refreshSpecialPegsForPlayer; the shuffle is drawn as a rotation of the pegs.
refreshSpecialPegsForPlayer(pegList, count, shuffle) ==
  LET n == Len(pegList)
      goldCount == (n * (MAP_GRID_SIZE * MAP_GRID_SIZE + count))
                      \div (10 * MAP_GRID_SIZE * MAP_GRID_SIZE)
      redCount == (n * 8 * (MAP_GRID_SIZE * MAP_GRID_SIZE - count))
                     \div (100 * MAP_GRID_SIZE * MAP_GRID_SIZE)
      pos(k) == ((k - 1 - shuffle) % n)
  IN [k \in 1..n |->
        [pegList[k] EXCEPT !.type =
           IF pos(k) < goldCount THEN "gold"
           ELSE IF pos(k) < goldCount + redCount THEN "red"
           ELSE "normal"]]

\* refreshInterval of a player (lines 1153-1160).
RefreshInterval(count) == 200 + (200 * count) \div (MAP_GRID_SIZE * MAP_GRID_SIZE)

RECURSIVE RefreshPegs(_, _, _, _, _, _)
RefreshPegs(i, ps, counts, timers, pegList, d) ==
  IF i \notin DOMAIN ps THEN [timers |-> timers, pegs |-> pegList]
  ELSE IF ~ps[i].isAlive THEN RefreshPegs(i + 1, ps, counts, timers, pegList, d)
  ELSE IF timers[i] + 1 >= RefreshInterval(counts[i])
       THEN RefreshPegs(i + 1, ps, counts, [timers EXCEPT ![i] = 0],
                        refreshSpecialPegsForPlayer(pegList, counts[i], d.shuffle), d)
       ELSE RefreshPegs(i + 1, ps, counts, [timers EXCEPT ![i] = @ + 1], pegList, d)

\* The spawn angle re-aim (lines 1172-1185); d.jitter is the draw, in hundredths.
Reaim(ps, angles, t, d) ==
  IF t % ReaimEvery = 0
  THEN [i \in DOMAIN angles |->
          IF ps[i].isAlive
          THEN NormDeg(CenterAngle(ps[i].bx, ps[i].by) + RoundDiv((d.jitter - 50) * 120, 100))
          ELSE angles[i]]
  ELSE angles

(***************************************************************************)
(* Math.random().  The generator is deterministic given its hidden state:  *)
(* rng names the stream of the running match, chosen when setup() is       *)
(* called.  Draws(rng, t, p) are the draws consumed for player p in tick   *)
(* t, in hundredths; WaveDraws(rng, t, p, i) those of the i-th unit of a   *)
(* wave.  Stream 0 favours player 0 and sends its units, all heavy, in     *)
(* three lanes straight at the map centre; the other streams mix the       *)
(* outcomes.  seed is the value of randomSeed (line 234), which is         *)
(* uniform on [0, 100) whatever the state of the ball.  BothLanesStream is *)
(* stream 0 with the rewards and the waves of player 1 drawn as those of   *)
(* player 0: the highest multiplier and the three lanes.                   *)
(***************************************************************************)
Seeds == 0..MaxSeed
BothLanesStream == 9

Mix(a, b, c, m) == (a * 37 + b * 61 + c * 17 + a * b * 7 + 11) % m

Draws(r, t, p) ==
  IF r = 0 \/ r = BothLanesStream
  THEN [ballX |-> IF p = 0 THEN 35 ELSE 60, ballVx |-> IF p = 0 THEN 70 ELSE 20,
        ballVy |-> 50, stuckVx |-> 80, stuckVy |-> 50, rot |-> 50,
        seed |-> IF p = 0 THEN 5 ELSE (IF t % 3 = 0 THEN 50 ELSE 5),
        mult |-> IF p = 0 \/ r = BothLanesStream THEN 97 ELSE 10,
        shuffle |-> t % 20, jitter |-> 50]
  ELSE [ballX |-> Mix(r, t, p, 100), ballVx |-> Mix(r, t, p + 1, 100),
        ballVy |-> Mix(r, t, p + 2, 100), stuckVx |-> Mix(r, t, p + 3, 100),
        stuckVy |-> Mix(r, t, p + 4, 100), rot |-> 40 + Mix(r, t, p + 5, 20),
        seed |-> Mix(r, t, p + 6, 100), mult |-> Mix(r, t, p + 7, 100),
        shuffle |-> Mix(r, t, p + 8, 20), jitter |-> Mix(r, t, p + 9, 100)]

WaveDraws(r, t, p, i) ==
  IF (r = 0 /\ p = 0) \/ r = BothLanesStream
  THEN [angle |-> IF i % 3 = 0 THEN 90 ELSE 270,
        dist |-> IF i % 3 = 1 THEN 0 ELSE 93,
        spread |-> 0, offset |-> 50, type |-> 99]
  ELSE [angle |-> Mix(r + 1, t, i, 360), dist |-> Mix(r + 2, t, i, 100),
        spread |-> Mix(r + 3, t, i, 100), offset |-> Mix(r + 4, t, i, 100),
        type |-> Mix(r + 5, t, i, 100)]

\* The draws of setup(): the peg types and the terrain layout.
PegTypeDraws(r) ==
  [k \in 1..(ROW_COUNT * COL_COUNT) |-> Mix(IF r = BothLanesStream THEN 0 ELSE r, k, 3, 100)]
TerrainDrawOf(r) == 1 + (r % Len(TerrainDraws))

(***************************************************************************)
(* GameEngine.setup(playerCount).                                          *)
(***************************************************************************)
\* new GameEngine(): the state after construction.
Init ==
  /\ players = <<>>
  /\ balls = <<>>
  /\ units = <<>>
  /\ grid = EmptyGrid
  /\ terrainGrid = EmptyTerrain
  /\ pegs = <<>>
  /\ tick = 0
  /\ winner = Null
  /\ gamePhase = "early"
  /\ scores = <<>>
  /\ territoryCounts = <<>>
  /\ playerPegRefreshTimers = <<>>
  /\ spawnAngles = <<>>
  /\ lastScore = <<>>
  /\ rng = 0

\* The players pushed by setup (lines 776-791).
SetupPlayers(playerCount) ==
  [i \in 0..(playerCount - 1) |->
     [id |-> i, isAlive |-> TRUE, coreHp |-> InitialCoreHp,
      bx |-> BasePos(playerCount, i)[1], by |-> BasePos(playerCount, i)[2],
      baseRadius |-> BaseRadius]]

\* initGrid followed by initializeTerritory for players 0..i, in that order.
RECURSIVE SetupGrid(_, _)
SetupGrid(playerCount, i) ==
  IF i < 0 THEN EmptyGrid
  ELSE initializeTerritory(SetupGrid(playerCount, i - 1), i,
                           BasePos(playerCount, i)[1], BasePos(playerCount, i)[2])

InitialGrids == [n \in MinPlayers..(MaxPlayers + 1) |-> SetupGrid(n, n - 1)]

setup(playerCount, r) ==
  LET ps == SetupPlayers(playerCount)
  IN /\ players' = ps
     /\ balls' = [i \in DOMAIN ps |->
                    NewBall(3000 + Draws(r, 0, i).ballX * 40, -1000,
                            Draws(r, 0, i).ballVx, Draws(r, 0, i).ballVy)]
     /\ units' = <<>>
     /\ grid' = InitialGrids[playerCount]
     /\ terrainGrid' = TerrainOfDraw[TerrainDrawOf(r)]
     /\ scores' = [i \in DOMAIN ps |-> 0]
     /\ territoryCounts' = [i \in DOMAIN ps |-> InitialTerritoryCount]
     /\ pegs' = generateMultiLayerPegs(PegTypeDraws(r))
     /\ tick' = 0
     /\ winner' = Null
     /\ gamePhase' = "early"
     /\ playerPegRefreshTimers' = [i \in DOMAIN ps |-> 0]
     /\ spawnAngles' = [i \in DOMAIN ps |->
                          NormDeg(CenterAngle(ps[i].bx, ps[i].by)
                                    + RoundDiv((Draws(r, 0, i).jitter - 50) * 57, 100))]
     /\ lastScore' = <<>>
     /\ rng' = r

Setup == \E n \in MinPlayers..MaxPlayers : \E r \in Seeds : setup(n, r)

(***************************************************************************)
(* GameEngine.update(pinballWidth, pinballHeight).                         *)
(***************************************************************************)
\* randomMultiplier (lines 1223-1236), in tenths; rand is the draw in hundredths.
RandomMultiplier(rand) ==
  IF rand < 25 THEN 5
  ELSE IF rand < 55 THEN 10
  ELSE IF rand < 80 THEN 20
  ELSE IF rand < 95 THEN 35
  ELSE 50

\* comboMultiplier (lines 1246-1255), in tenths.
ComboMultiplier(comboPoints) ==
  IF comboPoints >= 20 THEN 50
  ELSE IF comboPoints >= 15 THEN 35
  ELSE IF comboPoints >= 10 THEN 25
  ELSE IF comboPoints >= 5 THEN 18
  ELSE 10

\* finalUnits (lines 1238-1269) for a positive score; positionBonus is 1.
FinalUnits(score, b, d) ==
  LET ballSpeed == Sqrt(b.vx * b.vx + b.vy * b.vy)
      speedBonus == Min(1500, 1000 + ballSpeed \div 2)
      pegHitBonus == Min(2000, 1000 + (b.pegHitCount * 1000) \div 15)
      a == score * RandomMultiplier(d.mult) * ComboMultiplier(b.comboPoints)
      f == (speedBonus * pegHitBonus) \div 1000
  IN (a * f) \div 100000

\* What the loop records of a ball.update call: the value returned and the
\* y and the combo points of the ball at the end of the call.
Seen(lastSeen, i, bu) ==
  [k \in (DOMAIN lastSeen) \cup {i} |->
     IF k = i THEN [ret |-> bu.ret, y |-> bu.ball.y, nan |-> bu.ball.nan,
                     comboPoints |-> bu.ball.comboPoints]
     ELSE lastSeen[k]]

\* Lines 1215-1286 for player i: bu is what ball.update gave, st holds balls,
\* units, scores and what the loop recorded so far.
Reward(i, ps, counts, phase, r, t, st, bu, d, finalUnits) ==
  IF bu.ret > 0
  THEN [balls |-> spawnBall(st.balls, ps, i, d),
        units |-> spawnWave(st.units, ps, counts, phase, i, finalUnits, TRUE,
                            [k \in 1..WaveSize(counts[i], finalUnits) |->
                               WaveDraws(r, t, i, k)]),
        scores |-> [st.scores EXCEPT ![i] = @ + finalUnits],
        lastScore |-> Seen(st.lastScore, i, bu)]
  ELSE [st EXCEPT !.balls = [st.balls EXCEPT ![i] = bu.ball],
                  !.lastScore = Seen(st.lastScore, i, bu)]

StepBall(i, ps, counts, phase, r, t, st, bu) ==
  Reward(i, ps, counts, phase, r, t, st, bu, Draws(r, t, i),
         FinalUnits(bu.ret, bu.ball, Draws(r, t, i)))

\* The loop over the players (lines 1192-1287), from player i on.
RECURSIVE StepBalls(_, _, _, _, _, _, _, _)
StepBalls(i, ps, counts, phase, pegList, r, t, st) ==
  IF i \notin DOMAIN ps THEN st
  ELSE IF ~ps[i].isAlive \/ i \notin DOMAIN st.balls
       THEN StepBalls(i + 1, ps, counts, phase, pegList, r, t, st)
       ELSE StepBalls(i + 1, ps, counts, phase, pegList, r, t,
                      StepBall(i, ps, counts, phase, r, t, st,
                               BallUpdate(st.balls[i], PinballWidth, PinballHeight,
                                          pegList, Draws(r, t, i))))

\* units.splice(i, 1) on the 1-based sequence.
Splice(us, i) == SubSeq(us, 1, i - 1) \o SubSeq(us, i + 1, Len(us))

\* Lines 1296-1297: st after unit.update on the unit at index i gave uu.
StepUnit(i, st, uu) ==
  [units |-> [st.units EXCEPT ![i] = uu.unit], grid |-> uu.grid,
   territoryChanged |-> st.territoryChanged \/ uu.ret]

\* One iteration of the loop over the units (lines 1291-1297), at index i.
StepAt(i, st, tg, ps) ==
  IF ~st.units[i].active THEN [st EXCEPT !.units = Splice(@, i)]
  ELSE StepUnit(i, st, UnitUpdate(st.units[i], st.grid, tg, MAP_GRID_SIZE, ps, st.units))

\* The loop over the units (lines 1289-1298) on the indices hi down to lo: the
\* unit list, the grid and territoryChanged after it.  The range is halved so
\* that the evaluation nests no deeper than the logarithm of its length; upper
\* is the state after the indices above mid.
RECURSIVE StepUnits(_, _, _, _, _)
StepLower(lo, mid, upper, tg, ps) ==
  IF Len(upper.units) < lo THEN upper ELSE StepUnits(lo, mid, upper, tg, ps)

StepUnits(lo, hi, st, tg, ps) ==
  IF lo > hi THEN st
  ELSE IF lo = hi THEN StepAt(lo, st, tg, ps)
  ELSE StepLower(lo, (lo + hi) \div 2,
                 StepUnits((lo + hi) \div 2 + 1, hi, st, tg, ps), tg, ps)

\* The recount (lines 1300-1309).
Recount(g, ps) ==
  [i \in DOMAIN ps |->
     Cardinality({c \in Cells \X Cells : g[c[2]][c[1]] = i})]

update ==
  LET t == tick + 1
  IN \E rp \in {RefreshPegs(0, players, territoryCounts, playerPegRefreshTimers, pegs,
                            Draws(rng, t, 0))} :
     \E cs \in {checkSurvival(players, balls, grid, territoryCounts, winner)} :
     \E phase \in {updateGamePhase(territoryCounts)} :
     \E sb \in {StepBalls(0, cs.players, territoryCounts, phase, rp.pegs, rng, t,
                          [balls |-> cs.balls, units |-> units, scores |-> scores,
                           lastScore |-> <<>>])} :
     \E su \in {StepUnits(1, Len(sb.units),
                          [units |-> sb.units, grid |-> grid, territoryChanged |-> FALSE],
                          terrainGrid, cs.players)} :
     /\ tick' = t
     /\ playerPegRefreshTimers' = rp.timers
     /\ pegs' = rp.pegs
     /\ spawnAngles' = Reaim(players, spawnAngles, t, Draws(rng, t, 0))
     /\ players' = cs.players
     /\ winner' = cs.winner
     /\ gamePhase' = phase
     /\ balls' = sb.balls
     /\ scores' = sb.scores
     /\ lastScore' = sb.lastScore
     /\ units' = su.units
     /\ grid' = su.grid
     /\ territoryCounts' = IF su.territoryChanged \/ t % RecountEvery = 0
                           THEN Recount(su.grid, cs.players)
                           ELSE territoryCounts
     /\ UNCHANGED <<terrainGrid, rng>>

\* The render loop of App.tsx calls update once startGame has called setup.
Update == players # <<>> /\ tick < MaxTick /\ update

Next == Setup \/ Update

Spec == Init /\ [][Next]_vars

(***************************************************************************)
(* Properties.                                                             *)
(***************************************************************************)
\* Number of cells of g owned by pid.
OwnedCells(g, pid) == Cardinality({c \in Cells \X Cells : g[c[2]][c[1]] = pid})

\* Sum of the entries of counts.
RECURSIVE SumCounts(_, _)
SumCounts(counts, i) ==
  IF i \notin DOMAIN counts THEN 0 ELSE counts[i] + SumCounts(counts, i + 1)

\* Whether a match is set up.
Started == players # <<>>

\* C1: at the end of setup() and of every update() tick, the territory counts
\* of all players plus the number of neutral cells sum to the grid area.
C1_TerritoryConservation ==
  Started =>
    SumCounts(territoryCounts, 0) + OwnedCells(grid, Neutral)
      = MAP_GRID_SIZE * MAP_GRID_SIZE

\* C2: every cell of the territory grid holds -1 (neutral) or the id of an
\* existing player, in every reachable state.
C2_CellOwners ==
  \A y \in Cells : \A x \in Cells :
     grid[y][x] = Neutral \/ grid[y][x] \in DOMAIN players

\* A unit has painted the centre of the map.
C2_Witness == Started /\ tick > 0 /\ grid[50][50] \in DOMAIN players

\* C3: 0 <= coreHp <= 500 for every player, alive or eliminated, in every
\* reachable state.
C3_CoreHpRange ==
  \A i \in DOMAIN players :
     players[i].coreHp >= 0 /\ players[i].coreHp <= InitialCoreHp

\* An eliminated player keeps a core hp strictly between the two ends.
C3_Witness ==
  \E i \in DOMAIN players :
     ~players[i].isAlive /\ players[i].coreHp > 0 /\ players[i].coreHp < InitialCoreHp

\* Whether unit u has been stepped and holds an exit anchor.
Anchored(u) == u.currentOwner # NoOwner /\ u.leftTerritoryPosition # NoPoint

WithinMaxDistance(u) ==
  DistSq(u.x, u.y, u.leftTerritoryPosition[1], u.leftTerritoryPosition[2])
    <= u.maxDistance * u.maxDistance

\* C4: a unit with an exit anchor that is still active after a Unit.update()
\* is within maxDistance of the anchor, also on ticks on which it stands on
\* ground of its own player.
C4_ExcursionBound ==
  \A k \in 1..Len(units) :
     (units[k].active /\ Anchored(units[k])) => WithinMaxDistance(units[k])

\* C5: Ball.update never returns a negative value, and returns 0 whenever the
\* ball's y at the end of the call is not greater than field height plus
\* ball radius.
C5_BallReturn ==
  \A i \in DOMAIN lastScore :
     /\ lastScore[i].ret >= 0
     /\ (lastScore[i].nan \/ lastScore[i].y <= PinballHeight + BallRadius)
          => lastScore[i].ret = 0

\* A ball.update call returned a positive value, for a ball below the floor.
C5_Witness ==
  \E i \in DOMAIN lastScore :
     lastScore[i].ret > 0 /\ lastScore[i].y > PinballHeight + BallRadius

\* C6: on the tick a living player's ball crosses the floor, whatever reward
\* it computes, the player holds a freshly spawned ball at the end of that
\* tick.
C6_ReplacedOnCrossing ==
  \A i \in DOMAIN lastScore :
     (~lastScore[i].nan /\ lastScore[i].y > PinballHeight + BallRadius)
        => (i \in DOMAIN balls /\ balls[i].ballTick = 0)

\* C7: after checkSurvival() in a tick, every player whose weighted control
\* ratio over its production disc is below 0.1 is not alive and has no ball.
C7_Elimination ==
  [][tick' = tick + 1 =>
       \A i \in DOMAIN players :
          WeightedControl(grid, players[i]) * 10 < TotalWeight(players[i])
            => (~players'[i].isAlive /\ i \notin DOMAIN balls')]_vars

\* A player below the elimination floor is out, without a ball.
C7_Witness ==
  \E i \in DOMAIN players :
     /\ WeightedControl(grid, players[i]) * 10 < TotalWeight(players[i])
     /\ ~players[i].isAlive /\ i \notin DOMAIN balls

\* C8: after checkSurvival() in a tick, if exactly one player is alive the
\* winner is that player; if two or more are alive and no living player's
\* territory count has reached the grid area, the winner is null.
C8_Winner ==
  [][tick' = tick + 1 =>
       /\ Cardinality(AlivePlayers(players')) = 1
            => winner' \in AlivePlayers(players')
       /\ (/\ Cardinality(AlivePlayers(players')) >= 2
           /\ \A i \in AlivePlayers(players') :
                 territoryCounts[i] < MAP_GRID_SIZE * MAP_GRID_SIZE)
            => winner' = Null]_vars

\* One player is left alive and is the winner.
C8_Witness ==
  /\ tick > 0 /\ Cardinality(AlivePlayers(players)) = 1
  /\ winner \in AlivePlayers(players)

\* C9: immediately after setup(n) all players are alive, the winner is null,
\* each player owns a non-empty set of cells, and territoryCounts[i] is the
\* number of cells player i owns.
C9_AfterSetup ==
  (Started /\ tick = 0) =>
    /\ Cardinality(DOMAIN players) \in MinPlayers..MaxPlayers
    /\ \A i \in DOMAIN players : players[i].isAlive
    /\ winner = Null
    /\ \A i \in DOMAIN players :
          OwnedCells(grid, i) > 0 /\ territoryCounts[i] = OwnedCells(grid, i)

\* C10: setup(n) on an engine that has run gives the state of a fresh
\* setup(n): scores 0, territory counts the base-disc cell counts, the grid
\* holding only the base discs, no units, no winner, tick 0, phase early, all
\* players alive with one ball each.
C10_SetupResets ==
  [][(tick > 0 /\ tick' = 0) =>
       /\ \A i \in DOMAIN players' :
             /\ scores'[i] = 0
             /\ territoryCounts'[i] = OwnedCells(grid', i)
             /\ players'[i].isAlive
             /\ i \in DOMAIN balls'
       /\ grid' = InitialGrids[Cardinality(DOMAIN players')]
       /\ DOMAIN balls' = DOMAIN players'
       /\ units' = <<>>
       /\ winner' = Null
       /\ gamePhase' = "early"]_vars

(***************************************************************************)
(* Unit.update on its own: one unit of a drawn type, owner, hp, position   *)
(* and heading on the grid that setup() leaves, stepped MaxUnitSteps times *)
(* as the unit loop of update() steps it.                                  *)
(***************************************************************************)
MaxUnitSteps == 2

\* Where the probe unit starts: on player 0's base area, on its territory
\* outside the base area, on supply and obstacle cells of that territory, by
\* the right boundary, and on the highground south-west of the centre.
ProbePositions ==
  {<<8550, 5050>>, <<7550, 6050>>, <<7350, 4550>>, <<7550, 5550>>,
   <<9930, 5000>>, <<9960, 5000>>, <<3050, 7050>>}
ProbeAngles == {0, 90, 180, 270}
ProbeHps == {100, 300, 4500}

ProbeUnit(pos, pid, angle, unitType, hp) ==
  [NewUnit(pos[1], pos[2], pid, angle, unitType, 100000, "early") EXCEPT !.hp = hp]

UnitInit ==
  \E n \in MinPlayers..(MaxPlayers + 1) :
    /\ players = SetupPlayers(n)
    /\ grid = InitialGrids[n]
    /\ terrainGrid = TerrainOfDraw[1]
    /\ \E pos \in ProbePositions, pid \in 0..(n - 1), angle \in ProbeAngles,
          unitType \in UnitTypes, hp \in ProbeHps :
          units = <<ProbeUnit(pos, pid, angle, unitType, hp)>>
    /\ balls = <<>>
    /\ pegs = <<>>
    /\ tick = 0
    /\ winner = Null
    /\ gamePhase = "early"
    /\ scores = [i \in 0..(n - 1) |-> 0]
    /\ territoryCounts = [i \in 0..(n - 1) |-> InitialTerritoryCount]
    /\ playerPegRefreshTimers = [i \in 0..(n - 1) |-> 0]
    /\ spawnAngles = [i \in 0..(n - 1) |-> 0]
    /\ lastScore = <<>>
    /\ rng = 0

\* unit.update(this.grid, this.terrainGrid, MAP_GRID_SIZE, this.players, this.units)
UnitStep ==
  /\ tick < MaxUnitSteps
  /\ units[1].active
  /\ \E uu \in {UnitUpdate(units[1], grid, terrainGrid, MAP_GRID_SIZE, players, units)} :
       /\ units' = <<uu.unit>>
       /\ grid' = uu.grid
  /\ tick' = tick + 1
  /\ UNCHANGED <<players, balls, terrainGrid, pegs, winner, gamePhase, scores,
                 territoryCounts, playerPegRefreshTimers, spawnAngles, lastScore, rng>>

UnitSpec == UnitInit /\ [][UnitStep]_vars

\* The cell Unit.update looks up for unit u: the floor of its position after
\* the movement step.
LandingX(u) == (u.x + StepX(u.angle, UNIT_STATS[u.unitType].speed)) \div Sc
LandingY(u) == (u.y + StepY(u.angle, UNIT_STATS[u.unitType].speed)) \div Sc

\* Whether that cell is in the grid and owned by a living player other than u's.
OnLivingEnemy(u, g, ps) ==
  /\ InGrid(LandingX(u), LandingY(u))
  /\ g[LandingY(u)][LandingX(u)] \in DOMAIN ps
  /\ g[LandingY(u)][LandingX(u)] # u.playerId
  /\ ps[g[LandingY(u)][LandingX(u)]].isAlive

\* The capture cost of painting around that cell, in hundredths of hp; no
\* other unit is near, so typeBonus is 1.0.
IncurredCost(u, g, tg, ps) ==
  CaptureCost(u,
              paintArea(g, MAP_GRID_SIZE, LandingX(u), LandingY(u), u.playerId,
                        UNIT_STATS[u.unitType].captureRadius).paintedCount,
              g[LandingY(u)][LandingX(u)], TRUE,
              IsBaseArea(ps, g[LandingY(u)][LandingX(u)], LandingX(u), LandingY(u)),
              tg[LandingY(u)][LandingX(u)], 10)

\* Whether the call heals u before the cost is taken: a heavy unit's bounce
\* off a boundary, or a supply cell.
HealedInCall(u, tg) ==
  SupplyHeal(tg[LandingY(u)][LandingX(u)],
             Bounce(u, u.x + StepX(u.angle, UNIT_STATS[u.unitType].speed),
                    u.y + StepY(u.angle, UNIT_STATS[u.unitType].speed),
                    MAP_GRID_SIZE).hp,
             u.maxHp) # u.hp

\* C11 as stated: a unit with hp = 1 on a cell of a living enemy is inactive
\* after one Unit.update() call whose capture cost exceeds 1, whatever the
\* terrain and the unit type.
C11_OneHpDeactivates ==
  [][(/\ tick' = tick + 1
      /\ units[1].hp = 100
      /\ OnLivingEnemy(units[1], grid, players)
      /\ IncurredCost(units[1], grid, terrainGrid, players) > 100)
       => ~units'[1].active]_vars

\* C11 amended: the same, for a call that does not heal the unit (no supply
\* cell under it and no bounce off a boundary).
C11_OneHpDeactivatesUnhealed ==
  [][(/\ tick' = tick + 1
      /\ units[1].hp = 100
      /\ OnLivingEnemy(units[1], grid, players)
      /\ IncurredCost(units[1], grid, terrainGrid, players) > 100
      /\ ~HealedInCall(units[1], terrainGrid))
       => ~units'[1].active]_vars

\* A unit that paid more than its one hp on enemy ground without being healed
\* and is inactive: its hp went from 1 below 0 in its first update.
C11_Witness ==
  /\ tick = 1
  /\ Len(units) = 1
  /\ ~units[1].active
  /\ units[1].hp < 0
  /\ units[1].hp > 100 - 10000
  /\ units[1].currentOwner \in DOMAIN players
  /\ units[1].currentOwner # units[1].playerId
  /\ units[1].bounceCooldown = 0
  /\ terrainGrid[units[1].y \div Sc][units[1].x \div Sc] \in {"normal", "highground"}

\* Whether unit u, as its last Unit.update left it, reached paintArea in that
\* call: it stood on a cell of another owner and was not stopped by the
\* excursion check (which leaves the hp it had, positive).
ReachedPaint(u) ==
  /\ u.currentOwner # NoOwner
  /\ u.currentOwner # u.playerId
  /\ (u.active \/ u.hp <= 0)

\* Whether cell (x, y) lies in the disc paintArea paints for u around a cell
\* next to the one u ends on (the terrain slow-down and the clamp of a bounce
\* move u by less than a cell after the cell is looked up).
InPaintReach(u, x, y) ==
  \E ox \in {-1, 0, 1}, oy \in {-1, 0, 1} :
     <<x, y>> \in PaintDisc(MAP_GRID_SIZE, u.x \div Sc + ox, u.y \div Sc + oy,
                            UNIT_STATS[u.unitType].captureRadius)

\* C12: in an update() tick every cell whose owner changed was painted by
\* Unit.paintArea: it holds the id of a unit that reached paintArea in this
\* tick and lies in that unit's paint disc; a tick in which no unit paints
\* leaves the whole grid unchanged.
C12_OnlyPaintArea ==
  [][tick' = tick + 1 =>
       \A y \in Cells : \A x \in Cells :
          grid'[y][x] # grid[y][x] =>
            \E k \in 1..Len(units') :
               /\ units'[k].playerId = grid'[y][x]
               /\ ReachedPaint(units'[k])
               /\ InPaintReach(units'[k], x, y)]_vars

\* A unit has painted the cell it stands on, which it found in other hands.
C12_Witness ==
  /\ tick > 0
  /\ \E k \in 1..Len(units) :
        /\ units[k].active
        /\ ReachedPaint(units[k])
        /\ grid[units[k].y \div Sc][units[k].x \div Sc] = units[k].playerId

\* Number of units of the list us owned by player i.
UnitsOf(us, i) == Cardinality({k \in 1..Len(us) : us[k].playerId = i})

\* C13: in the tick a player is eliminated and in every later tick, its score
\* does not change, no unit of it is added to the unit list, it has no ball
\* and none is created for it; update() runs to its end on such ticks.
C13_EliminatedIsInert ==
  [][tick' = tick + 1 =>
       \A i \in DOMAIN players' :
          ~players'[i].isAlive =>
            /\ scores'[i] = scores[i]
            /\ UnitsOf(units', i) <= UnitsOf(units, i)
            /\ i \notin DOMAIN balls']_vars

\* update() has run its ball loop with a player eliminated: the eliminated
\* player has no ball and was not stepped, another player's ball was.
C13_Witness ==
  \E i \in DOMAIN players :
     /\ ~players[i].isAlive
     /\ i \notin DOMAIN balls
     /\ i \notin DOMAIN lastScore
     /\ scores[i] > 0
     /\ DOMAIN lastScore # {}

\* C14: at the end of every tick in which a unit painted a cell (the grid
\* differs from the grid before the tick), and of every tick whose number is
\* a multiple of 10, territoryCounts[i] is the number of cells player i owns.
C14_CountsAfterPaint ==
  [][(tick' = tick + 1 /\ (grid' # grid \/ tick' % RecountEvery = 0)) =>
       \A i \in DOMAIN players' : territoryCounts'[i] = OwnedCells(grid', i)]_vars

\* Whether cell (x, y) lies in the disc initializeTerritory paints for p.
InBaseDisc(p, x, y) ==
  (x - p.bx \div Sc) * (x - p.bx \div Sc) + (y - p.by \div Sc) * (y - p.by \div Sc)
    <= TerritoryRadius * TerritoryRadius

\* Every cell of every player's initial disc is owned by that player, or by a
\* player set up after it whose disc also holds the cell.
BaseDiscsIntact(g, ps) ==
  \A i \in DOMAIN ps : \A y \in Cells : \A x \in Cells :
     InBaseDisc(ps[i], x, y) =>
       \/ g[y][x] = i
       \/ g[y][x] \in DOMAIN ps /\ g[y][x] > i /\ InBaseDisc(ps[g[y][x]], x, y)

\* C15: no update() tick changes a terrain cell, and at the end of setup(),
\* after generateTerrain, the discs painted by initializeTerritory are intact.
C15_TerrainFrame ==
  [][/\ tick' = tick + 1 => terrainGrid' = terrainGrid
     /\ tick' = 0 => BaseDiscsIntact(grid', players')]_vars

\* update() has run on a map whose supply disc around (70, 45) reaches into
\* the initial disc of player 0, and the cell there is still player 0's.
C15_Witness ==
  /\ Started /\ tick > 0
  /\ terrainGrid[45][73] = "supply"
  /\ InBaseDisc(players[0], 73, 45)
  /\ grid[45][73] = 0

\* Whether the floor of unit u's position is a cell of the grid.
StandsInGrid(u) == InGrid(u.x \div Sc, u.y \div Sc)

\* C16: the cell Unit.update looks up and the cells paintArea reads and writes
\* have both indices in [0, 100); a unit whose floored position after the
\* movement is outside is deactivated in that update, with no cell looked up
\* and none painted.
C16_IndicesInGrid ==
  /\ [](\A k \in 1..Len(units) :
          /\ (units[k].active /\ InGrid(LandingX(units[k]), LandingY(units[k]))) =>
               PaintDisc(MAP_GRID_SIZE, LandingX(units[k]), LandingY(units[k]),
                         UNIT_STATS[units[k].unitType].captureRadius)
                 \subseteq Cells \X Cells
          /\ ~StandsInGrid(units[k]) =>
               ~units[k].active /\ units[k].currentOwner = NoOwner)
  /\ [][\A k \in 1..Len(units') :
           (tick' = tick + 1 /\ ~StandsInGrid(units'[k])) => grid' = grid]_vars

\* A unit painted the cell at the right boundary and then left the grid.
C16_Witness ==
  /\ tick = 2
  /\ ~StandsInGrid(units[1])
  /\ ~units[1].active
  /\ grid[50][99] = units[1].playerId
  /\ units[1].playerId # 0

(***************************************************************************)
(* Ball.update on its own: a ball constructed near a peg of the field that *)
(* setup() lays out, with drawn initial velocities, stepped MaxBallSteps   *)
(* times as the ball loop of update() steps it.                            *)
(***************************************************************************)
MaxBallSteps == 40

\* The pegs the probe ball starts near, and where it starts relative to the
\* peg centre (hundredths): one gravity step above the centre, above the
\* peg's rim, beside it and below it.
ProbePegs == {1, 6, 9, 11}
ProbeOffsets == {<<0, -14>>, <<0, -700>>, <<350, -500>>, <<-350, -500>>, <<0, 300>>}
ProbeVx == {20, 50, 80}
ProbeVy == {0, 60}

BallInit ==
  /\ players = SetupPlayers(MinPlayers)
  /\ pegs = generateMultiLayerPegs(PegTypeDraws(0))
  /\ \E k \in ProbePegs, o \in ProbeOffsets, rvx \in ProbeVx, rvy \in ProbeVy :
        balls = [i \in {0} |-> NewBall(pegs[k].x + o[1], pegs[k].y + o[2], rvx, rvy)]
  /\ units = <<>>
  /\ grid = InitialGrids[MinPlayers]
  /\ terrainGrid = TerrainOfDraw[1]
  /\ tick = 0
  /\ winner = Null
  /\ gamePhase = "early"
  /\ scores = [i \in DOMAIN players |-> 0]
  /\ territoryCounts = [i \in DOMAIN players |-> InitialTerritoryCount]
  /\ playerPegRefreshTimers = [i \in DOMAIN players |-> 0]
  /\ spawnAngles = [i \in DOMAIN players |-> 0]
  /\ lastScore = <<>>
  /\ rng = 0

\* const score = ball.update(pinballWidth, pinballHeight, this.pegs)
BallStep ==
  /\ tick < MaxBallSteps
  /\ \E bu \in {BallUpdate(balls[0], PinballWidth, PinballHeight, pegs,
                           Draws(rng, tick + 1, 0))} :
       /\ balls' = [i \in {0} |-> bu.ball]
       /\ lastScore' = Seen(<<>>, 0, bu)
  /\ tick' = tick + 1
  /\ UNCHANGED <<players, units, grid, terrainGrid, pegs, winner, gamePhase, scores,
                 territoryCounts, playerPegRefreshTimers, spawnAngles, rng>>

BallSpec == BallInit /\ [][BallStep]_vars

\* C17: after Ball.update the position and velocity of the ball are finite
\* (not NaN), also when the ball's centre meets the centre of the closest
\* peg or its speed is 0 at the collision.
C17_BallStaysFinite == \A i \in DOMAIN balls : ~balls[i].nan

\* C18: an update() tick keeps the length and the ids of the player list, and
\* a player that is not alive stays not alive.
C18_PlayersKept ==
  [][tick' = tick + 1 =>
       /\ DOMAIN players' = DOMAIN players
       /\ \A i \in DOMAIN players :
             /\ players'[i].id = i /\ players[i].id = i
             /\ ~players[i].isAlive => ~players'[i].isAlive]_vars

\* An eliminated player is still in the list, some ticks after setup().
C18_Witness ==
  /\ tick > 0
  /\ \E i \in DOMAIN players : ~players[i].isAlive /\ players[i].id = i
  /\ Cardinality(DOMAIN players) >= MinPlayers

\* C19: after setup() and after every update() tick the ball Map holds a
\* ball for exactly the living players.
C19_OneBallPerLivingPlayer ==
  Started => DOMAIN balls = AlivePlayers(players)

\* After an elimination the surviving players hold their balls and the
\* eliminated one holds none.
C19_Witness ==
  /\ tick > 0
  /\ AlivePlayers(players) # {}
  /\ AlivePlayers(players) # DOMAIN players
  /\ DOMAIN balls = AlivePlayers(players)

\* Whether the offset of cell (x, y) from (cx, cy) satisfies dx*dx + dy*dy <= r*r,
\* r in tenths.
WithinRadius(x, y, cx, cy, r) ==
  ((x - cx) * (x - cx) + (y - cy) * (y - cy)) * 100 <= r * r

\* What C20 says of paintArea(g, 100, cx, cy, pid, r): pa is the result of the
\* call and again the result of the same call on the grid it left.
PaintsExactly(g, cx, cy, pid, r, pa, again) ==
  /\ \A y \in Cells :
        IF y < cy - 3 \/ y > cy + 3 THEN pa.grid[y] = g[y]
        ELSE \A x \in Cells :
                pa.grid[y][x] = IF WithinRadius(x, y, cx, cy, r) THEN pid ELSE g[y][x]
  /\ pa.paintedCount =
        Cardinality({c \in (Cells \cap ((cx - 3)..(cx + 3))) \X (Cells \cap ((cy - 3)..(cy + 3))) :
                        WithinRadius(c[1], c[2], cx, cy, r) /\ g[c[2]][c[1]] # pid})
  /\ again.grid = pa.grid
  /\ again.paintedCount = 0

\* The call of paintArea that Unit.update makes for unit u on grid g, and the
\* same call repeated.
PaintCall(g, u) ==
  paintArea(g, MAP_GRID_SIZE, LandingX(u), LandingY(u), u.playerId,
            UNIT_STATS[u.unitType].captureRadius)

\* C20: paintArea sets to pid exactly the in-bounds cells within the radius,
\* leaves every other cell unchanged and returns the number of cells that had
\* another owner; a second call with the same arguments changes nothing and
\* returns 0.
C20_PaintAreaExact ==
  \A k \in 1..Len(units) :
     (units[k].active /\ InGrid(LandingX(units[k]), LandingY(units[k]))) =>
        PaintsExactly(grid, LandingX(units[k]), LandingY(units[k]), units[k].playerId,
                      UNIT_STATS[units[k].unitType].captureRadius,
                      PaintCall(grid, units[k]),
                      PaintCall(PaintCall(grid, units[k]).grid, units[k]))

\* A unit that has painted cells of another owner is about to paint again, at
\* the right boundary, where the grid clips its disc.
C20_Witness ==
  /\ tick = 1
  /\ units[1].active
  /\ ReachedPaint(units[1])
  /\ LandingX(units[1]) = 99
  /\ PaintCall(grid, units[1]).paintedCount = 0
  /\ grid[50][99] = units[1].playerId

\* The units of the list that update() steps rather than splices out.
IsActive(u) == u.active
SteppedUnits(us) == SelectSeq(us, IsActive)

\* The position of unit u after the movement step of its next update.
MovedX(u) == u.x + StepX(u.angle, UNIT_STATS[u.unitType].speed)
MovedY(u) == u.y + StepY(u.angle, UNIT_STATS[u.unitType].speed)

\* The anchor C21 allows after an update of unit u in which it looked up a
\* cell of owner seen (NoOwner: it left the grid and looked up none).
AnchorAllowed(u, seen) ==
  IF seen = NoOwner THEN u.leftTerritoryPosition
  ELSE IF seen = u.playerId
       THEN IF DistSq(MovedX(u), MovedY(u), u.spawnPosition[1], u.spawnPosition[2])
                 < 200 * 200
            THEN NoPoint ELSE u.leftTerritoryPosition
       ELSE IF u.leftTerritoryPosition = NoPoint
            THEN <<MovedX(u), MovedY(u)>> ELSE u.leftTerritoryPosition

\* C21: the exit anchor of a unit is set to its position on the first tick
\* it stands on a cell it does not own with the anchor null, is reset to null
\* only on an own cell less than 2 from its spawn position, and is otherwise
\* left as it was; a unit spawned in the tick gets an anchor only on a cell it
\* does not own.
C21_AnchorRule ==
  [][tick' = tick + 1 =>
       /\ Len(units') >= Len(SteppedUnits(units))
       /\ \A k \in 1..Len(units') :
             IF k <= Len(SteppedUnits(units))
             THEN units'[k].leftTerritoryPosition
                    = AnchorAllowed(SteppedUnits(units)[k], units'[k].currentOwner)
             ELSE units'[k].leftTerritoryPosition # NoPoint
                    => units'[k].currentOwner \notin {NoOwner, units'[k].playerId}]_vars

\* A unit stands on a cell of its own, 2 or more from its spawn position, and
\* still holds the anchor it set when it left its territory.
C21_Witness ==
  \E k \in 1..Len(units) :
     /\ units[k].active
     /\ units[k].currentOwner = units[k].playerId
     /\ units[k].leftTerritoryPosition # NoPoint
     /\ DistSq(units[k].x, units[k].y, units[k].spawnPosition[1],
               units[k].spawnPosition[2]) > 210 * 210

(***************************************************************************)
(* updateGamePhase on its own: from the state setup() leaves, each step    *)
(* computes the phase from the territory counts, as update() does, and     *)
(* then replaces the counts by the result of a recount, drawn from         *)
(* PhaseCounts.                                                            *)
(***************************************************************************)
MaxPhaseSteps == 3

\* Cell counts on both sides of the two thresholds (1500 and 3000 cells).
PhaseCounts == {100, 828, 1499, 1500, 2999, 3000, 6000}

PhaseInit ==
  /\ players = SetupPlayers(MinPlayers)
  /\ territoryCounts = [i \in DOMAIN players |-> InitialTerritoryCount]
  /\ gamePhase = "early"
  /\ balls = <<>>
  /\ units = <<>>
  /\ grid = InitialGrids[MinPlayers]
  /\ terrainGrid = TerrainOfDraw[1]
  /\ pegs = <<>>
  /\ tick = 0
  /\ winner = Null
  /\ scores = [i \in DOMAIN players |-> 0]
  /\ playerPegRefreshTimers = [i \in DOMAIN players |-> 0]
  /\ spawnAngles = [i \in DOMAIN players |-> 0]
  /\ lastScore = <<>>
  /\ rng = 0

\* this.updateGamePhase() and, at the end of the tick, this.territoryCounts = counts
PhaseStep ==
  /\ tick < MaxPhaseSteps
  /\ gamePhase' = updateGamePhase(territoryCounts)
  /\ \E counts \in [DOMAIN players -> PhaseCounts] :
        /\ SumCounts(counts, 0) <= MAP_GRID_SIZE * MAP_GRID_SIZE
        /\ territoryCounts' = counts
  /\ tick' = tick + 1
  /\ UNCHANGED <<players, balls, units, grid, terrainGrid, pegs, winner, scores,
                 playerPegRefreshTimers, spawnAngles, lastScore, rng>>

PhaseSpec == PhaseInit /\ [][PhaseStep]_vars

C23_OnlyActiveUnits == \A k \in DOMAIN units : units[k].active

\* C24: for a living player there are territory counts of dominance below
\* 0.20 for which spawnWave's catch-up bonus is at least 1, so that the wave
\* holds more units than the base amount, the quantity bonus and the
\* territory penalty give alone.
C24_CatchUpBonusApplies ==
  Started =>
    \E i \in DOMAIN players :
      /\ players[i].isAlive
      /\ \E count \in 0..(MAP_GRID_SIZE * MAP_GRID_SIZE) :
            /\ WaveOwned(count) * 100 < 20 * MAP_GRID_SIZE * MAP_GRID_SIZE
            /\ (CatchUpBonus(WaveOwned(count)) * TerritoryPenalty(WaveOwned(count))) \div 10 >= 1

\* C25: the combo factor of the exit reward lies in [1.0, 2.0] whatever combo
\* points the ball holds when it crosses the floor, after any sequence of
\* normal, gold and red peg hits.
C25_ComboFactorRange ==
  \A i \in DOMAIN lastScore :
     (~lastScore[i].nan /\ lastScore[i].y > PinballHeight + BallRadius)
        => /\ ComboFactor(lastScore[i].comboPoints) >= 1000
           /\ ComboFactor(lastScore[i].comboPoints) <= 2000

\* The squared speed the next Ball.update will test (lines 70-78).
NextSpeedSq(b) ==
  Scale100(b.vx, FRICTION) * Scale100(b.vx, FRICTION)
    + Scale100(b.vy + GRAVITY, FRICTION) * Scale100(b.vy + GRAVITY, FRICTION)

\* The balls that update() stepped and kept in this tick.
KeptBalls ==
  {i \in DOMAIN balls \cap DOMAIN balls' :
     i \in DOMAIN lastScore' /\ lastScore'[i].ret = 0 /\ ~balls'[i].nan}

\* C26: the stall counter of a ball is at most 20 at the end of every update;
\* a ball that has spent 20 consecutive ticks below the stall threshold has
\* its counter back at 0 after the next Ball.update and is then faster than
\* the threshold, so no ball stays in the low-speed state.
C26_StallBounded ==
  /\ [](\A i \in DOMAIN balls : balls[i].stuckFrames >= 0 /\ balls[i].stuckFrames <= 20)
  /\ [][tick' = tick + 1 =>
          \A i \in KeptBalls :
             balls[i].stuckFrames = 20 =>
                /\ balls'[i].stuckFrames = 0
                /\ NextSpeedSq(balls'[i]) >= 2000]_vars

\* A ball has been below the stall threshold for 20 ticks and is still below
\* it: the next Ball.update injects the impulse.
C26_Witness ==
  \E i \in DOMAIN balls :
     /\ ~balls[i].nan
     /\ balls[i].stuckFrames = 20
     /\ NextSpeedSq(balls[i]) < 2000
     /\ tick < MaxTick

\* C27: the weights of both unit mixes sum to 1, selectUnitType returns light
\* or heavy for every draw in [0, 1) and never assault, and every unit in the
\* list has a type that UNIT_STATS defines.
C27_UnitTypeDefined ==
  /\ \A isJackpot \in BOOLEAN :
        /\ getUnitMix(isJackpot).light + getUnitMix(isJackpot).heavy = 100
        /\ \A rand \in 0..99 :
              selectUnitType(getUnitMix(isJackpot), rand) \in {"light", "heavy"}
  /\ \A k \in DOMAIN units :
        units[k].unitType \in {"light", "heavy"} \cap DOMAIN UNIT_STATS

\* A wave has spawned units of both types.
C27_Witness ==
  /\ \E k \in DOMAIN units : units[k].unitType = "light"
  /\ \E k \in DOMAIN units : units[k].unitType = "heavy"

(***************************************************************************)
(* The reward of update() on its own: from the state setup() leaves, with  *)
(* the ball of every player placed near a peg as in BallInit, update() is  *)
(* called MaxBallSteps times.                                              *)
(***************************************************************************)
RewardInit ==
  /\ players = SetupPlayers(MinPlayers)
  /\ pegs = generateMultiLayerPegs(PegTypeDraws(0))
  /\ \E k \in ProbePegs, o \in ProbeOffsets, rvx \in ProbeVx, rvy \in ProbeVy :
        balls = [i \in DOMAIN players |->
                   NewBall(pegs[k].x + o[1], pegs[k].y + o[2], rvx, rvy)]
  /\ units = <<>>
  /\ grid = InitialGrids[MinPlayers]
  /\ terrainGrid = TerrainOfDraw[1]
  /\ tick = 0
  /\ winner = Null
  /\ gamePhase = "early"
  /\ scores = [i \in DOMAIN players |-> 0]
  /\ territoryCounts = [i \in DOMAIN players |-> InitialTerritoryCount]
  /\ playerPegRefreshTimers = [i \in DOMAIN players |-> 0]
  /\ spawnAngles = [i \in DOMAIN players |->
                      NormDeg(CenterAngle(players[i].bx, players[i].by)
                                + RoundDiv((Draws(0, 0, i).jitter - 50) * 57, 100))]
  /\ lastScore = <<>>
  /\ rng = 0

RewardStep == tick < MaxBallSteps /\ update

RewardSpec == RewardInit /\ [][RewardStep]_vars

\* Number of units of player i in the list, and of those that are active.
OwnedCount(us, i) == Cardinality({k \in DOMAIN us : us[k].playerId = i})
OwnedActiveCount(us, i) == Cardinality({k \in DOMAIN us : us[k].playerId = i /\ us[k].active})

\* C30: in every tick in which the ball of a living player returns a positive
\* reward, the unit list gains at least one unit of that player (beside the
\* inactive ones the tick prunes) and the player's score does not decrease,
\* also when the final unit count is 0.
C30_RewardSpawns ==
  [][tick' = tick + 1 =>
       \A i \in DOMAIN lastScore' :
          lastScore'[i].ret > 0 =>
             /\ players'[i].isAlive
             /\ scores'[i] >= scores[i]
             /\ OwnedCount(units', i) >= OwnedActiveCount(units, i) + 1]_vars

\* A positive reward whose final unit count was 0: the score is still 0 and
\* the player has units.
C30_Witness ==
  \E i \in DOMAIN lastScore :
     /\ lastScore[i].ret > 0
     /\ scores[i] = 0
     /\ OwnedCount(units, i) >= 1

(***************************************************************************)
(* A match of two players on BothLanesStream, run past its end: the render *)
(* loop keeps calling update() after a winner is declared.                 *)
(***************************************************************************)
MaxSiegeTick == 470

SiegeSetup == setup(MinPlayers, BothLanesStream)

SiegeUpdate == players # <<>> /\ tick < MaxSiegeTick /\ update

SiegeNext == SiegeSetup \/ SiegeUpdate

SiegeSpec == Init /\ [][SiegeNext]_vars

\* C28: whenever a winner is declared, the player it names is alive, also in
\* the ticks after the declaration, in which the units of eliminated players
\* keep moving and painting.
C28_WinnerAlive == winner # Null => (winner \in DOMAIN players /\ players[winner].isAlive)

\* C29: once the winner is a player id, no update() tick changes it to
\* another id or back to null.
C29_WinnerKept ==
  [][(tick' = tick + 1 /\ winner # Null) => winner' = winner]_vars

\* The winner is still named after further ticks in which it was itself
\* eliminated.
C29_Witness ==
  /\ winner \in DOMAIN players
  /\ AlivePlayers(players) = {}
  /\ tick > 0

====
